---- MODULE Spec2Model ----
(***************************************************************************)
(* Model of compress_jpeg (src/src/lib.rs): the colour transform, chroma   *)
(* subsampling, 8x8 block DCT / quantise / inverse DCT and recombination.  *)
(*                                                                         *)
(* Numbers.  The code computes in f32.  Here an f32 sample or coefficient  *)
(* is a fixed-point integer counting units of 1/FX, a cosine or 1/sqrt(2)  *)
(* is an integer counting units of 1/CS, and a colour weight is an integer *)
(* counting millionths.  quality is an integer counting units of 1/QUnit.  *)
(* Every product is rounded to the nearest unit, so the model follows the  *)
(* code's arithmetic to about three decimal places of a sample.            *)
(***************************************************************************)
EXTENDS Integers, Sequences, FiniteSets, TLC

\* ------------------------------------------------------------- bounds
\* Small images: every width in 0..MaxW with every height in 0..MaxH.
MaxW == 3
MaxH == 3

\* ------------------------------------------------------- number model
FX == 1024
CS == 16384
QUnit == 4
\* u32::MAX, the value a saturating `as u32` cast gives for +inf.  TLC's
\* integers are 32-bit signed, so the model's largest integer stands for it:
\* both exceed twice every coefficient the pipeline can produce.
U32_MAX == 2147483647

Abs(a) == IF a < 0 THEN -a ELSE a
Sign(a) == IF a < 0 THEN -1 ELSE 1
Min(a, b) == IF a < b THEN a ELSE b
Max(a, b) == IF a > b THEN a ELSE b

\* round(a * b / c) for c > 0, without forming a * b when a is large.
MulDiv(a, b, c) ==
    LET hi == a \div c
        lo == a % c
    IN  hi * b + ((lo * b + (c \div 2)) \div c)

\* a sample or coefficient times a cosine (units of 1/CS)
MulCS(a, c) == MulDiv(a, c, CS)

\* a sample times a colour weight given in millionths
MulMicro(a, m) ==
    MulDiv(a, m \div 1000, 1000) + MulDiv(a, m % 1000, 1000000)

\* f32::round: to the nearest integer, halves away from zero
Round(a) == Sign(a) * ((Abs(a) + (FX \div 2)) \div FX)

\* round(d / t) for a coefficient d (units of 1/FX) and an integer t >= 1,
\* halves away from zero; written so that t = U32_MAX does not overflow.
RoundQuot(d, t) ==
    Sign(d) * ((((2 * Abs(d)) \div FX) \div t + 1) \div 2)

\* cos(k * pi / 16) in units of 1/CS, k = 0..31
CosTab ==
    << 16384, 16069, 15137, 13623, 11585, 9102, 6270, 3196,
       0, -3196, -6270, -9102, -11585, -13623, -15137, -16069,
       -16384, -16069, -15137, -13623, -11585, -9102, -6270, -3196,
       0, 3196, 6270, 9102, 11585, 13623, 15137, 16069 >>

\* ((2 * x + 1) as f32 * u as f32 * PI / 16.0).cos()
Cos(x, u) == CosTab[(((2 * x + 1) * u) % 32) + 1]

\* 1.0 / 2.0f32.sqrt() in units of 1/CS
InvSqrt2 == 11585

B8 == 0..7

\* Forces a function to be computed once, when it is built.
Mat(f) == f @@ <<>>

Length(buf) == Cardinality(DOMAIN buf)

\* ------------------------------------------------------------ inputs
\* quality values, in units of 1/QUnit: -1, 0, 0.5, 1, 2, 50, 75, 100
Qualities == {-4, 0, 2, 4, 8, 200, 300, 400}

\* images with more than one 8x8 block per plane
BigSizes == {<<10, 10>>, <<16, 16>>}
Sizes == ((0..MaxW) \X (0..MaxH)) \cup BigSizes

Patterns == {"flat", "checker", "colour"}

\* how much longer than width*height*4 the supplied buffer is
Deltas == {-2, -1, 0, 1}

\* byte i of the test image: channel i % 4 of pixel i \div 4
PatternByte(p, w, i) ==
    LET ch == i % 4
        px == (i \div 4) % Max(w, 1)
        py == (i \div 4) \div Max(w, 1)
    IN  CASE p = "flat" -> IF ch = 3 THEN 255 ELSE 128
          [] p = "checker" ->
                IF ch = 3 THEN (IF (px + py) % 2 = 0 THEN 0 ELSE 77)
                ELSE IF (px + py) % 2 = 0 THEN 255 ELSE 0
          [] OTHER ->
                CASE ch = 0 -> (px * 80 + 30) % 256
                  [] ch = 1 -> (py * 60 + 200) % 256
                  [] ch = 2 -> (37 * (px + 2 * py) + 5) % 256
                  [] OTHER -> 10

Image(p, w, h, d) == Mat([i \in 0..(w * h * 4 + d - 1) |-> PatternByte(p, w, i)])

\* ----------------------------------------------------- colour transform
ToY(r, g, b) ==
    MulMicro(r * FX, 299000) + MulMicro(g * FX, 587000) + MulMicro(b * FX, 114000)

ToCb(r, g, b) ==
    (0 - MulMicro(r * FX, 168736)) - MulMicro(g * FX, 331264)
        + MulMicro(b * FX, 500000) + 128 * FX

ToCr(r, g, b) ==
    MulMicro(r * FX, 500000) - MulMicro(g * FX, 418688)
        - MulMicro(b * FX, 81312) + 128 * FX

\* data[idx], data[idx + 1], data[idx + 2] of some pixel lies outside the buffer
SplitPanics(width, height, data) ==
    \E y \in 0..(height - 1), x \in 0..(width - 1), k \in 0..2 :
        ((y * width + x) * 4 + k) \notin DOMAIN data

\* component "y", "cb" or "cr" of the pixel (r, g, b)
Component(comp, r, g, b) ==
    CASE comp = "y" -> ToY(r, g, b)
      [] comp = "cb" -> ToCb(r, g, b)
      [] OTHER -> ToCr(r, g, b)

SplitPlane(width, height, data, comp) ==
    Mat([y \in 0..(height - 1) |-> Mat([x \in 0..(width - 1) |->
        LET idx == (y * width + x) * 4
        IN  Component(comp, data[idx], data[idx + 1], data[idx + 2])])])

\* ---------------------------------------------------- chroma subsampling
SubDim(n) == n \div 2

SubsamplePanics(matrix, subsampled_w, subsampled_h) ==
    \E y \in 0..(subsampled_h - 1), x \in 0..(subsampled_w - 1) :
        \/ (y * 2) \notin DOMAIN matrix
        \/ (x * 2) \notin DOMAIN matrix[y * 2]

Subsample(matrix, subsampled_w, subsampled_h) ==
    Mat([y \in 0..(subsampled_h - 1) |-> Mat([x \in 0..(subsampled_w - 1) |->
        matrix[y * 2][x * 2]])])

\* ------------------------------------------------------- quantisation
std_quant_matrix ==
    << <<16, 11, 10, 16, 24, 40, 51, 61>>,
       <<12, 12, 14, 19, 26, 58, 60, 55>>,
       <<14, 13, 16, 24, 40, 57, 69, 56>>,
       <<14, 17, 22, 29, 51, 87, 80, 62>>,
       <<18, 22, 37, 56, 68, 109, 103, 77>>,
       <<24, 35, 55, 64, 81, 104, 113, 92>>,
       <<49, 64, 78, 87, 103, 121, 120, 101>>,
       <<72, 92, 95, 98, 112, 100, 103, 99>> >>

Std(u, v) == std_quant_matrix[u + 1][v + 1]

\* floor(a / b) for b # 0
FloorDiv(a, b) == IF b < 0 THEN (0 - a) \div (0 - b) ELSE a \div b

\* (val as f32 * scale).floor().max(1.0) as u32, with
\* scale = (if quality < 50.0 { 5000.0 / quality } else { 200.0 - quality * 2.0 }) / 100.0
\* and q the quality in units of 1/QUnit.  5000.0 / 0.0 is +inf, which the
\* cast saturates.
QuantEntry(val, q) ==
    IF q < 50 * QUnit
    THEN IF q = 0 THEN U32_MAX
         ELSE Min(U32_MAX, Max(1, FloorDiv(val * 50 * QUnit, q)))
    ELSE Max(1, FloorDiv(val * (200 * QUnit - 2 * q), 100 * QUnit))

QuantMatrix(q) == Mat([u \in B8 |-> Mat([v \in B8 |-> QuantEntry(Std(u, v), q)])])

\* -------------------------------------------------------- dct2d, idct2d
C(u) == IF u = 0 THEN InvSqrt2 ELSE CS

RECURSIVE SumTo(_, _)
SumTo(f, n) == IF n < 0 THEN 0 ELSE f[n] + SumTo(f, n - 1)

dct2d(block) ==
    Mat([u \in B8 |-> Mat([v \in B8 |->
        LET sum == SumTo([x \in B8 |-> SumTo([y \in B8 |->
                       MulCS(MulCS(block[x][y], Cos(x, u)), Cos(y, v))], 7)], 7)
        IN  MulCS(MulCS(sum \div 4, C(u)), C(v))])])

idct2d(dct) ==
    Mat([x \in B8 |-> Mat([y \in B8 |->
        LET sum == SumTo([u \in B8 |-> SumTo([v \in B8 |->
                       MulCS(MulCS(MulCS(MulCS(dct[u][v], C(u)), C(v)),
                                   Cos(x, u)), Cos(y, v))], 7)], 7)
        IN  sum \div 4])])

\* ------------------------------------------------------ process_blocks
\* Mutant of InBounds: the guard is off by one (<= for <).
InBoundsOffByOne(y_idx, x_idx, height, width) == y_idx <= height /\ x_idx <= width

\* the guard of the block load and of the write-back
InBounds(y_idx, x_idx, height, width) == y_idx < height /\ x_idx < width

\* (0..n).step_by(8)
StepBy8(n) == {k \in 0..(n - 1) : k % 8 = 0}

Origins(width, height) == StepBy8(height) \X StepBy8(width)

LoadBlock(channel, width, height, i, j) ==
    Mat([u \in B8 |-> Mat([v \in B8 |->
        IF InBounds(i + u, j + v, height, width) THEN channel[i + u][j + v] ELSE 0])])

Quantize(dct_block, quant_matrix) ==
    Mat([u \in B8 |-> Mat([v \in B8 |->
        RoundQuot(dct_block[u][v], quant_matrix[u][v])])])

Dequantize(quantized, quant_matrix) ==
    Mat([u \in B8 |-> Mat([v \in B8 |->
        quantized[u][v] * quant_matrix[u][v] * FX])])

TransformBlock(block, quant_matrix) ==
    idct2d(Dequantize(Quantize(dct2d(block), quant_matrix), quant_matrix))

\* an index that passes the guard lies outside the channel or outside `processed`
ProcessPanics(channel, width, height) ==
    \E o \in Origins(width, height), u \in B8, v \in B8 :
        /\ InBounds(o[1] + u, o[2] + v, height, width)
        /\ \/ (o[1] + u) \notin DOMAIN channel
           \/ (o[2] + v) \notin DOMAIN channel[o[1] + u]
           \/ (o[1] + u) \notin 0..(height - 1)
           \/ (o[2] + v) \notin 0..(width - 1)

\* the blocks whose write-back loop stores to processed[y][x]
Writers(width, height, y, x) ==
    {o \in Origins(width, height) :
        (y - o[1]) \in B8 /\ (x - o[2]) \in B8 /\ InBounds(y, x, height, width)}

\* processed: the returned plane; blocks: each block as loaded, by origin;
\* writes: how many times each position of `processed` was stored to.
process_blocks(channel, width, height, quant_matrix) ==
    LET loaded == Mat([o \in Origins(width, height) |->
                        LoadBlock(channel, width, height, o[1], o[2])])
        block_idct == Mat([o \in Origins(width, height) |->
                        TransformBlock(loaded[o], quant_matrix)])
    IN  [processed |->
            Mat([y \in 0..(height - 1) |-> Mat([x \in 0..(width - 1) |->
                LET ws == Writers(width, height, y, x)
                IN  IF ws = {} THEN 0
                    ELSE LET o == CHOOSE w \in ws : \A w2 \in ws : w2[1] <= w[1] /\ w2[2] <= w[2]
                         IN  block_idct[o][y - o[1]][x - o[2]]])]),
         blocks |-> loaded,
         writes |->
            Mat([y \in 0..(height - 1) |-> Mat([x \in 0..(width - 1) |->
                Cardinality(Writers(width, height, y, x))])])]

\* ------------------------------------------------------------ upsample
SrcInBounds(src_y, src_x, subsampled_h, subsampled_w) ==
    src_y < subsampled_h /\ src_x < subsampled_w

UpsamplePanics(processed, width, height, subsampled_w, subsampled_h) ==
    \E y \in 0..(height - 1), x \in 0..(width - 1) :
        /\ SrcInBounds(y \div 2, x \div 2, subsampled_h, subsampled_w)
        /\ \/ (y \div 2) \notin DOMAIN processed
           \/ (x \div 2) \notin DOMAIN processed[y \div 2]

Upsample(processed, width, height, subsampled_w, subsampled_h) ==
    Mat([y \in 0..(height - 1) |-> Mat([x \in 0..(width - 1) |->
        IF SrcInBounds(y \div 2, x \div 2, subsampled_h, subsampled_w)
        THEN processed[y \div 2][x \div 2] ELSE 0])])

\* ----------------------------------------------------------- recombine
\* x.round().clamp(0.0, 255.0) as u8
ToU8(a) == Min(255, Max(0, Round(a)))

\* r, g, b of one pixel, before rounding
RecombineRGB(y_val, cb_up_val, cr_up_val) ==
    LET cb_val == cb_up_val - 128 * FX
        cr_val == cr_up_val - 128 * FX
    IN  << y_val + MulMicro(cr_val, 1402000),
           (y_val - MulMicro(cb_val, 344136)) - MulMicro(cr_val, 714136),
           y_val + MulMicro(cb_val, 1772000) >>

\* Mutant of RecombinePixel: the store to output_data[idx + 3] is missing, so
\* the alpha byte keeps the 0 the buffer was allocated with.
RecombinePixelAlphaUnset(y_val, cb_up_val, cr_up_val) ==
    LET rgb == RecombineRGB(y_val, cb_up_val, cr_up_val)
    IN  <<ToU8(rgb[1]), ToU8(rgb[2]), ToU8(rgb[3]), 0>>

\* the four bytes stored at idx .. idx + 3
RecombinePixel(y_val, cb_up_val, cr_up_val) ==
    LET rgb == RecombineRGB(y_val, cb_up_val, cr_up_val)
    IN  <<ToU8(rgb[1]), ToU8(rgb[2]), ToU8(rgb[3]), 255>>

\* vec![0; width * height * 4]
OutLen(width, height) == width * height * 4

RecombinePanics(width, height) ==
    \E y \in 0..(height - 1), x \in 0..(width - 1), k \in 0..3 :
        ((y * width + x) * 4 + k) \notin 0..(OutLen(width, height) - 1)

Recombine(y_proc, cb_u, cr_u, width, height) ==
    LET px == Mat([y \in 0..(height - 1) |-> Mat([x \in 0..(width - 1) |->
                  RecombinePixel(y_proc[y][x], cb_u[y][x], cr_u[y][x])])])
    IN  Mat([idx \in 0..(OutLen(width, height) - 1) |->
            IF idx < width * height * 4
            THEN px[(idx \div 4) \div width][(idx \div 4) % width][(idx % 4) + 1]
            ELSE 0])


\* ------------------------------------------------------- compress_jpeg
VARIABLES
    width, height, data, quality,      \* the arguments: image_data, quality
    pc,                                \* the position in compress_jpeg
    y_matrix, cb_matrix, cr_matrix,    \* full-resolution planes
    subsampled_w, subsampled_h, cb_sub, cr_sub,
    quant_matrix,
    y_processed, cb_processed, cr_processed,
    blocks, writes,                    \* of the latest process_blocks call
    cb_up, cr_up,
    result, output                     \* what the call returns

args == <<width, height, data, quality>>
planes == <<y_matrix, cb_matrix, cr_matrix>>
subs == <<subsampled_w, subsampled_h, cb_sub, cr_sub>>
procs == <<y_processed, cb_processed, cr_processed>>
trace == <<blocks, writes>>
ups == <<cb_up, cr_up>>
vars == <<args, pc, planes, subs, quant_matrix, procs, trace, ups, result, output>>

NoImage == [width |-> 0, height |-> 0, data |-> <<>>]

Inputs ==
    {in \in [size : Sizes, pattern : Patterns, quality : Qualities, delta : Deltas] :
        /\ in.size[1] * in.size[2] * 4 + in.delta >= 0
        /\ in.delta # 0 =>
              /\ in.pattern = "checker"
              /\ in.quality \in {0, QUnit}
              /\ in.size \notin BigSizes}

Init ==
    /\ \E in \in Inputs :
          /\ width = in.size[1]
          /\ height = in.size[2]
          /\ data = Image(in.pattern, in.size[1], in.size[2], in.delta)
          /\ quality = in.quality
    /\ pc = "start"
    /\ y_matrix = <<>> /\ cb_matrix = <<>> /\ cr_matrix = <<>>
    /\ subsampled_w = 0 /\ subsampled_h = 0 /\ cb_sub = <<>> /\ cr_sub = <<>>
    /\ quant_matrix = <<>>
    /\ y_processed = <<>> /\ cb_processed = <<>> /\ cr_processed = <<>>
    /\ blocks = <<>> /\ writes = <<>>
    /\ cb_up = <<>> /\ cr_up = <<>>
    /\ result = "pending"
    /\ output = NoImage

\* an index out of range: the call panics and returns nothing
Panic ==
    /\ pc' = "done"
    /\ result' = "panic"
    /\ UNCHANGED output

\* lines 42-60: the three planes from the RGBA buffer
SplitPlanes ==
    /\ pc = "start"
    /\ IF SplitPanics(width, height, data)
       THEN Panic /\ UNCHANGED planes
       ELSE /\ y_matrix' = SplitPlane(width, height, data, "y")
            /\ cb_matrix' = SplitPlane(width, height, data, "cb")
            /\ cr_matrix' = SplitPlane(width, height, data, "cr")
            /\ pc' = "split"
            /\ UNCHANGED <<result, output>>
    /\ UNCHANGED <<args, subs, quant_matrix, procs, trace, ups>>

\* lines 62-71
SubsampleChroma ==
    /\ pc = "split"
    /\ LET sw == SubDim(width)
           sh == SubDim(height)
       IN  IF SubsamplePanics(cb_matrix, sw, sh) \/ SubsamplePanics(cr_matrix, sw, sh)
           THEN Panic /\ UNCHANGED subs
           ELSE /\ subsampled_w' = sw
                /\ subsampled_h' = sh
                /\ cb_sub' = Subsample(cb_matrix, sw, sh)
                /\ cr_sub' = Subsample(cr_matrix, sw, sh)
                /\ pc' = "subsampled"
                /\ UNCHANGED <<result, output>>
    /\ UNCHANGED <<args, planes, quant_matrix, procs, trace, ups>>

\* lines 73-92
BuildQuantMatrix ==
    /\ pc = "subsampled"
    /\ quant_matrix' = QuantMatrix(quality)
    /\ pc' = "quant"
    /\ UNCHANGED <<args, planes, subs, procs, trace, ups, result, output>>

\* line 185
ProcessY ==
    /\ pc = "quant"
    /\ IF ProcessPanics(y_matrix, width, height)
       THEN Panic /\ UNCHANGED <<y_processed, trace>>
       ELSE LET r == process_blocks(y_matrix, width, height, quant_matrix)
            IN  /\ y_processed' = r.processed
                /\ blocks' = r.blocks
                /\ writes' = r.writes
                /\ pc' = "y_done"
                /\ UNCHANGED <<result, output>>
    /\ UNCHANGED <<args, planes, subs, quant_matrix, cb_processed, cr_processed, ups>>

\* line 186
ProcessCb ==
    /\ pc = "y_done"
    /\ IF ProcessPanics(cb_sub, subsampled_w, subsampled_h)
       THEN Panic /\ UNCHANGED <<cb_processed, trace>>
       ELSE LET r == process_blocks(cb_sub, subsampled_w, subsampled_h, quant_matrix)
            IN  /\ cb_processed' = r.processed
                /\ blocks' = r.blocks
                /\ writes' = r.writes
                /\ pc' = "cb_done"
                /\ UNCHANGED <<result, output>>
    /\ UNCHANGED <<args, planes, subs, quant_matrix, y_processed, cr_processed, ups>>

\* line 187
ProcessCr ==
    /\ pc = "cb_done"
    /\ IF ProcessPanics(cr_sub, subsampled_w, subsampled_h)
       THEN Panic /\ UNCHANGED <<cr_processed, trace>>
       ELSE LET r == process_blocks(cr_sub, subsampled_w, subsampled_h, quant_matrix)
            IN  /\ cr_processed' = r.processed
                /\ blocks' = r.blocks
                /\ writes' = r.writes
                /\ pc' = "cr_done"
                /\ UNCHANGED <<result, output>>
    /\ UNCHANGED <<args, planes, subs, quant_matrix, y_processed, cb_processed, ups>>

\* lines 189-200
UpsampleChroma ==
    /\ pc = "cr_done"
    /\ IF \/ UpsamplePanics(cb_processed, width, height, subsampled_w, subsampled_h)
          \/ UpsamplePanics(cr_processed, width, height, subsampled_w, subsampled_h)
       THEN Panic /\ UNCHANGED ups
       ELSE /\ cb_up' = Upsample(cb_processed, width, height, subsampled_w, subsampled_h)
            /\ cr_up' = Upsample(cr_processed, width, height, subsampled_w, subsampled_h)
            /\ pc' = "upsampled"
            /\ UNCHANGED <<result, output>>
    /\ UNCHANGED <<args, planes, subs, quant_matrix, procs, trace>>

\* lines 202-223
RecombineOutput ==
    /\ pc = "upsampled"
    /\ IF RecombinePanics(width, height)
       THEN Panic
       ELSE /\ output' = [width |-> width, height |-> height,
                          data |-> Recombine(y_processed, cb_up, cr_up, width, height)]
            /\ result' = "Ok"
            /\ pc' = "done"
    /\ UNCHANGED <<args, planes, subs, quant_matrix, procs, trace, ups>>

\* The whole call as one function of its arguments (lines 38-224): the
\* stages above, composed in the order the code runs them.
compress_jpeg(w, h, buf, q) ==
    LET sw == SubDim(w)
        sh == SubDim(h)
        ym == SplitPlane(w, h, buf, "y")
        cbm == SplitPlane(w, h, buf, "cb")
        crm == SplitPlane(w, h, buf, "cr")
        cbs == Subsample(cbm, sw, sh)
        crs == Subsample(crm, sw, sh)
        qm == QuantMatrix(q)
        yp == process_blocks(ym, w, h, qm).processed
        cbp == process_blocks(cbs, sw, sh, qm).processed
        crp == process_blocks(crs, sw, sh, qm).processed
        cbu == Upsample(cbp, w, h, sw, sh)
        cru == Upsample(crp, w, h, sw, sh)
    IN  IF \/ SplitPanics(w, h, buf)
           \/ SubsamplePanics(cbm, sw, sh)
           \/ ProcessPanics(ym, w, h)
           \/ ProcessPanics(cbs, sw, sh)
           \/ UpsamplePanics(cbp, w, h, sw, sh)
           \/ RecombinePanics(w, h)
        THEN [result |-> "panic", output |-> NoImage]
        ELSE [result |-> "Ok",
              output |-> [width |-> w, height |-> h,
                          data |-> Recombine(yp, cbu, cru, w, h)]]

Next ==
    \/ SplitPlanes
    \/ SubsampleChroma
    \/ BuildQuantMatrix
    \/ ProcessY
    \/ ProcessCb
    \/ ProcessCr
    \/ UpsampleChroma
    \/ RecombineOutput

Spec == Init /\ [][Next]_vars

\* ============================================================ claims
\* A valid image: positive dimensions and a buffer of width*height*4 bytes.
Valid == width > 0 /\ height > 0 /\ Length(data) = width * height * 4

\* The factor lies in [0, 1].
InRange == quality >= 0 /\ quality <= QUnit

\* Every pixel of the input is (128, 128, 128, 255).
FlatInput == \A i \in DOMAIN data : data[i] = (IF i % 4 = 3 THEN 255 ELSE 128)

\* C1: for a valid image, compress with factor 0.0 returns a buffer that is
\* byte-identical to the input buffer.
C1_Identity ==
    (pc = "done" /\ Valid /\ quality = 0) =>
        (result = "Ok" /\ output.data = data)

\* C2: a buffer whose length differs from width*height*4 makes the call fail
\* with BufferSizeMismatch and return no image.
C2_BufferSizeMismatch ==
    (pc = "done" /\ width > 0 /\ height > 0 /\ Length(data) # width * height * 4) =>
        (result = "BufferSizeMismatch" /\ output = NoImage)

\* C3: width = 0 or height = 0 makes the call fail with InvalidDimensions and
\* return no image, never a successful empty result.
C3_InvalidDimensions ==
    (pc = "done" /\ (width = 0 \/ height = 0)) =>
        (result = "InvalidDimensions" /\ output = NoImage)

\* C4: a factor outside [0,1] is clamped: for a valid image, a factor above 1
\* gives exactly the result of factor 1 and a factor below 0 exactly the
\* result of factor 0.
C4_Clamped ==
    (pc = "done" /\ Valid) =>
        /\ quality > QUnit =>
              [result |-> result, output |-> output]
                  = compress_jpeg(width, height, data, QUnit)
        /\ quality < 0 =>
              [result |-> result, output |-> output]
                  = compress_jpeg(width, height, data, 0)

\* C5: for a valid image and a factor in [0,1], the call returns an image in
\* which every pixel's alpha byte is exactly 255, whatever the input's alpha.
C5_AlphaOpaque ==
    (pc = "done" /\ Valid /\ InRange) =>
        /\ result = "Ok"
        /\ \A i \in DOMAIN output.data : i % 4 = 3 => output.data[i] = 255

\* C5 witness: a finished call on a valid image some of whose input alpha
\* bytes are not 255.
C5_Witness ==
    /\ pc = "done" /\ Valid /\ InRange /\ result = "Ok"
    /\ \E i \in DOMAIN data : i % 4 = 3 /\ data[i] # 255

\* C6: for a valid image and a factor in [0,1], whatever the dimensions, no
\* index leaves its buffer, plane or block (the call never panics), and the
\* returned image has the input's width and height and a buffer of exactly
\* width*height*4 bytes.
C6_NoOutOfBounds ==
    (Valid /\ InRange) =>
        /\ result # "panic"
        /\ pc = "done" =>
              /\ result = "Ok"
              /\ output.width = width
              /\ output.height = height
              /\ DOMAIN output.data = 0..(width * height * 4 - 1)

\* C6 witness: a finished call on a valid 10x10 image (neither dimension a
\* multiple of 8, two blocks along each axis of the luma plane).
C6_Witness ==
    /\ pc = "done" /\ Valid /\ InRange /\ result = "Ok"
    /\ width = 10 /\ height = 10

\* C7: for an image whose every pixel is (128,128,128,255) and a factor in
\* [0,1], every output pixel has R, G and B within 2 of 128.
C7_FlatField ==
    (pc = "done" /\ Valid /\ InRange /\ FlatInput) =>
        /\ result = "Ok"
        /\ \A i \in DOMAIN output.data :
              i % 4 # 3 => Abs(output.data[i] - 128) <= 2

\* C8: for a factor c in [0,1] the quantization table has entry [u][v] =
\* max(1, floor(base[u][v] * (1 + 20*c))), an integer >= 1, and is the table
\* in use while the three planes are processed.
C8_QuantTable ==
    (quant_matrix # <<>> /\ InRange) =>
        \A u \in B8, v \in B8 :
            /\ quant_matrix[u][v] >= 1
            /\ quant_matrix[u][v]
                  = Max(1, (Std(u, v) * (QUnit + 20 * quality)) \div QUnit)

\* C9: downsampling a plane of width w >= 1 and height h >= 1 yields
\* ceil(w/2) x ceil(h/2) samples, sample (x,y) being the source sample at
\* (min(2x, w-1), min(2y, h-1)); upsampling gives every position (x,y) the
\* subsampled value at (min(x/2, sub_w-1), min(y/2, sub_h-1)).
C9_Subsampling ==
    /\ (pc = "subsampled" /\ width >= 1 /\ height >= 1) =>
          /\ subsampled_w = (width + 1) \div 2
          /\ subsampled_h = (height + 1) \div 2
          /\ \A y \in 0..(subsampled_h - 1), x \in 0..(subsampled_w - 1) :
                /\ cb_sub[y][x] = cb_matrix[Min(2 * y, height - 1)][Min(2 * x, width - 1)]
                /\ cr_sub[y][x] = cr_matrix[Min(2 * y, height - 1)][Min(2 * x, width - 1)]
    /\ (pc = "upsampled" /\ width >= 1 /\ height >= 1) =>
          /\ subsampled_w >= 1
          /\ subsampled_h >= 1
          /\ \A y \in 0..(height - 1), x \in 0..(width - 1) :
                /\ cb_up[y][x] = cb_processed[Min(y \div 2, subsampled_h - 1)][Min(x \div 2, subsampled_w - 1)]
                /\ cr_up[y][x] = cr_processed[Min(y \div 2, subsampled_h - 1)][Min(x \div 2, subsampled_w - 1)]

\* C10: every block position outside the plane is loaded with the nearest
\* in-bounds sample (row clamped to height-1, column to width-1), and every
\* in-bounds position of the plane is written back exactly once.
C10_EdgeReplication ==
    (pc = "y_done") =>
        /\ \A o \in DOMAIN blocks, u \in B8, v \in B8 :
              (o[1] + u >= height \/ o[2] + v >= width) =>
                  blocks[o][u][v]
                      = y_matrix[Min(o[1] + u, height - 1)][Min(o[2] + v, width - 1)]
        /\ \A y \in 0..(height - 1), x \in 0..(width - 1) : writes[y][x] = 1

====
